---- MODULE Spec2Model ----
(***************************************************************************)
(* A model of the agentic RAG application: the query path of              *)
(* app/query_engine.py (QueryEngine) and its callers in interface/main.py, *)
(* the batch processing of files (app/document_parser.py, main.py) and     *)
(* the database guard of app/index_builder.py (IndexBuilder).              *)
(*                                                                         *)
(* Texts (questions, LLM answers, prompts) are sequences of tokens; a      *)
(* token is a literal piece of text (a plain word, a phrase, a citation    *)
(* written in one of the three textual forms).  String concatenation is    *)
(* sequence concatenation.  What Python's str.lower, str.split, str.strip  *)
(* and re.findall do on a token is given by the tables below.              *)
(*                                                                         *)
(* Confidence values are kept in hundredths (0.3 is 30, 0.05 is 5).        *)
(***************************************************************************)
EXTENDS Integers, Sequences, FiniteSets, TLC

Min(a, b) == IF a < b THEN a ELSE b
Max(a, b) == IF a > b THEN a ELSE b

(***************************************************************************)
(* Bounds of the model.                                                    *)
(***************************************************************************)
\* exchanges kept in one conversation (each is a user and an assistant entry)
MaxExchanges == 5
\* scorer harness: citation counts, source counts and filler words drawn
MaxCitations == 5
MaxSources == 5
MaxPad == 52
\* extractor harness: tokens in the answer text, retrieved chunks
MaxTextLen == 3
MaxNodes == 2
\* the longest batch of files
MaxBatch == 3
\* the turns one Streamlit session displays before its history is cleared
MaxTurns == 3
\* the largest max_retries _wait_for_neo4j is called with
MaxRetries == 5

(***************************************************************************)
(* Text primitives.                                                        *)
(***************************************************************************)
Whitespace == {" "}

\* str.lower() of a token
Lower(tok) ==
    CASE tok = "No Answer Found" -> "no answer found"
      [] tok = "Cannot Find" -> "cannot find"
      [] tok = "According To" -> "according to"
      [] tok = "Specifies" -> "specifies"
      [] OTHER -> tok

\* the number of words str.split() finds in a token
WordsIn(tok) ==
    CASE tok \in Whitespace -> 0
      [] Lower(tok) \in {"no answer found", "no information found",
                         "no relevant information", "no sources found",
                         "no specific information"} -> 3
      [] Lower(tok) \in {"not found in the documents",
                         "not mentioned in the documents"} -> 5
      [] Lower(tok) \in {"cannot find", "unable to find",
                         "according to", "states that"} -> 2
      [] tok \in {"[Source: a.pdf, Page: 3]", "[source: b.pdf, page: 2]",
                  "[Source: a.pdf, Page: x]", "a.pdf - Page 3"} -> 4
      [] tok \in {"(a.pdf, p. 3)", "(b.pdf, p. 0)"} -> 3
      [] OTHER -> 1

RECURSIVE WordCount(_)
\* len(text.split())
WordCount(text) ==
    IF text = <<>> THEN 0 ELSE WordsIn(Head(text)) + WordCount(Tail(text))

\* `phrase in text.lower()` for a phrase that is a token of the text
ContainsLower(text, phrase) == \E i \in 1..Len(text) : Lower(text[i]) = phrase

RECURSIVE LStrip(_)
LStrip(text) ==
    IF text # <<>> /\ Head(text) \in Whitespace THEN LStrip(Tail(text)) ELSE text

RECURSIVE RStrip(_)
RStrip(text) ==
    IF text # <<>> /\ text[Len(text)] \in Whitespace
    THEN RStrip(SubSeq(text, 1, Len(text) - 1))
    ELSE text

\* str.strip()
Strip(text) == RStrip(LStrip(text))

\* n plain words
Pad(n) == [i \in 1..n |-> "w"]

\* dict.get(key, default)
Get(d, key, default) == IF key \in DOMAIN d THEN d[key] ELSE default

\* the whole string, whatever its length
SnippetWhole(len, limit) == len

\* s[:limit] + "..." if len(s) > limit else s, for a string given by its length
Snippet(len, limit) == IF len > limit THEN limit + 3 ELSE len

(***************************************************************************)
(* QueryEngine._extract_citations_from_text: the three textual forms.      *)
(***************************************************************************)
\* which of the three regular expressions matches the token (0: none);
\* re.IGNORECASE lets the lower-case form match, \d+ refuses a page "x"
PatternOf(tok) ==
    CASE tok \in {"[Source: a.pdf, Page: 3]", "[source: b.pdf, page: 2]"} -> 1
      [] tok = "a.pdf - Page 3" -> 2
      [] tok \in {"(a.pdf, p. 3)", "(b.pdf, p. 0)"} -> 3
      [] OTHER -> 0

\* the groups of the match: the file name, stripped, and int(page)
MatchFile(tok) ==
    IF tok \in {"[source: b.pdf, page: 2]", "(b.pdf, p. 0)"} THEN "b.pdf" ELSE "a.pdf"

MatchPage(tok) ==
    CASE tok = "[source: b.pdf, page: 2]" -> 2
      [] tok = "(b.pdf, p. 0)" -> 0
      [] OTHER -> 3

TextCitation(tok) ==
    [file |-> MatchFile(tok), page |-> MatchPage(tok), type |-> "text_citation"]

\* re.findall(pattern_p, text): the matches in text order
FindAll(p, text) ==
    LET hits == SelectSeq(text, LAMBDA tok : PatternOf(tok) = p)
    IN  [i \in 1..Len(hits) |-> TextCitation(hits[i])]

ExtractCitationsFromText(text) ==
    FindAll(1, text) \o FindAll(2, text) \o FindAll(3, text)

(***************************************************************************)
(* The response of the citation engine: its text and, when the response    *)
(* object has them, the retrieved chunks (source_nodes).  A chunk holds    *)
(* its metadata, the length of its text and its score; a chunk whose       *)
(* metadata is None (readable = FALSE) makes every helper that reads it    *)
(* raise.                                                                  *)
(***************************************************************************)
HasSourceNodes(response) == "source_nodes" \in DOMAIN response

\* str(response)
Str(response) == response.text

SourceNodes(response) ==
    IF HasSourceNodes(response) THEN response.source_nodes ELSE <<>>

\* the index of the first chunk whose processing raises, 0 when none does
FirstUnreadable(nodes) ==
    IF \E i \in 1..Len(nodes) : ~nodes[i].readable
    THEN CHOOSE i \in 1..Len(nodes) :
            /\ ~nodes[i].readable
            /\ \A j \in 1..(i - 1) : nodes[j].readable
    ELSE 0

\* an exception empties what the loop had gathered
ProcessedNone(nodes) ==
    IF FirstUnreadable(nodes) = 0 THEN Len(nodes) ELSE 0

\* the chunks the loop gets through before an exception ends it
Processed(nodes) ==
    IF FirstUnreadable(nodes) = 0 THEN Len(nodes) ELSE FirstUnreadable(nodes) - 1

Document(i) == IF i = 1 THEN "Document_1" ELSE IF i = 2 THEN "Document_2"
               ELSE IF i = 3 THEN "Document_3" ELSE "Document_n"

StructuredCitation(i, node) ==
    [file |-> Get(node.metadata, "file_name", Document(i)),
     page |-> Get(node.metadata, "page", 1),
     text_snippet |-> Snippet(node.text, 200),
     score |-> node.score]

\* the set of pairs taken before any citation was collected
NoFilePagePairs(citations) == {}

FilePagePairs(citations) ==
    {<<citations[i].file, citations[i].page>> : i \in 1..Len(citations)}

\* the merge without the membership test
MergeEveryTextCitation(citations, text_citations) == citations \o text_citations

\* the kept text citations placed before the structured ones
MergeTextCitationsFirst(citations, text_citations) ==
    SelectSeq(text_citations,
        LAMBDA c : <<c.file, c.page>> \notin FilePagePairs(citations))
    \o citations

MergeTextCitations(citations, text_citations) ==
    citations \o SelectSeq(text_citations,
        LAMBDA c : <<c.file, c.page>> \notin FilePagePairs(citations))

ExtractCitationsFromResponse(response) ==
    LET nodes == SourceNodes(response)
        citations == [i \in 1..Processed(nodes) |-> StructuredCitation(i, nodes[i])]
    IN  IF FirstUnreadable(nodes) # 0
        THEN citations
        ELSE MergeTextCitations(citations, ExtractCitationsFromText(Str(response)))

ExtractSourcesFromResponse(response) ==
    LET nodes == SourceNodes(response)
        fromNodes == {nodes[i].metadata["file_name"] :
                        i \in {j \in 1..Processed(nodes) :
                                 "file_name" \in DOMAIN nodes[j].metadata}}
        cites == ExtractCitationsFromText(Str(response))
    IN  IF FirstUnreadable(nodes) # 0
        THEN fromNodes
        ELSE fromNodes \cup {cites[i].file : i \in 1..Len(cites)}

SourceDocument(node) ==
    [file_name |-> Get(node.metadata, "file_name", "Unknown"),
     page |-> Get(node.metadata, "page", 1),
     text_snippet |-> Snippet(node.text, 300),
     relevance_score |-> node.score,
     metadata |-> node.metadata]

ExtractSourceDocuments(response) ==
    LET nodes == SourceNodes(response)
    IN  [i \in 1..Processed(nodes) |-> SourceDocument(nodes[i])]

(***************************************************************************)
(* QueryEngine._is_no_answer_response and _calculate_confidence.           *)
(***************************************************************************)
NoAnswerIndicators ==
    {"no answer found", "no information found", "no relevant information",
     "not found in the documents", "no sources found", "cannot find",
     "unable to find", "not mentioned in the documents",
     "no specific information"}

\* the phrase test without lower(): a mixed-case phrase goes unnoticed
IsNoAnswerCaseSensitive(response_text) ==
    \E indicator \in NoAnswerIndicators :
        \E i \in 1..Len(response_text) : response_text[i] = indicator

IsNoAnswerResponse(response_text) ==
    \E indicator \in NoAnswerIndicators : ContainsLower(response_text, indicator)

FactualIndicators == {"according to", "states that", "specifies", "indicates"}

\* the clamp without its lower end
ClampAbove(confidence) == Min(confidence, 100)

\* the last line of _calculate_confidence, in hundredths
Clamp(confidence) == Min(Max(confidence, 0), 100)

\* the detail bonus with its thresholds included (>= for >)
DetailBonusInclusive(word_count) ==
    IF word_count >= 50 THEN 10 ELSE IF word_count >= 20 THEN 5 ELSE 0

\* lines 331-334: what a detailed response adds
DetailBonus(word_count) ==
    IF word_count > 50 THEN 10 ELSE IF word_count > 20 THEN 5 ELSE 0

\* the score without the penalty for an answer without citations
CalculateConfidenceUnpenalized(response_text, citations, num_sources) ==
    LET word_count == WordCount(response_text)
    IN  Clamp(30 + (IF citations # <<>> THEN Min(40, Len(citations) * 10) ELSE 0)
                 + (IF num_sources > 0 THEN Min(20, num_sources * 5) ELSE 0)
                 + DetailBonus(word_count)
                 - (IF word_count < 10 THEN 20 ELSE 0)
                 + (IF \E indicator \in FactualIndicators :
                           ContainsLower(response_text, indicator)
                    THEN 10 ELSE 0))

CalculateConfidence(response_text, citations, num_sources) ==
    LET base == 30
        withCitations ==
            IF citations # <<>> THEN base + Min(40, Len(citations) * 10) ELSE base
        withSources ==
            IF num_sources > 0
            THEN withCitations + Min(20, num_sources * 5)
            ELSE withCitations
        word_count == WordCount(response_text)
        detailed == withSources + DetailBonus(word_count)
        notShort == IF word_count < 10 THEN detailed - 20 ELSE detailed
        cited == IF citations = <<>> THEN notShort - 30 ELSE notShort
        factual ==
            IF \E indicator \in FactualIndicators :
                   ContainsLower(response_text, indicator)
            THEN cited + 10
            ELSE cited
    IN  Clamp(factual)

(***************************************************************************)
(* QueryEngine._add_context, given what memory.get() returned.             *)
(***************************************************************************)
RolePrefix(role) == IF role = "user" THEN "user: " ELSE "assistant: "

\* chat_history[:6]: the six oldest entries
FirstSix(chat_history) == SubSeq(chat_history, 1, Min(6, Len(chat_history)))

\* chat_history[-6:]
LastSix(chat_history) ==
    SubSeq(chat_history, Max(1, Len(chat_history) - 5), Len(chat_history))

RECURSIVE ContextLines(_)
\* one "<role>: <content>\n" per message that has both attributes
ContextLines(msgs) ==
    IF msgs = <<>> THEN <<>>
    ELSE LET msg == Head(msgs)
         IN  (IF "content" \in DOMAIN msg /\ "role" \in DOMAIN msg
              THEN <<RolePrefix(msg.role)>> \o msg.content \o <<"\n">>
              ELSE <<>>)
             \o ContextLines(Tail(msgs))

AddContextText(chat_history, question) ==
    IF chat_history = <<>>
    THEN question
    ELSE <<"Previous conversation context:\n">>
         \o ContextLines(LastSix(chat_history))
         \o <<"\nCurrent question: ">> \o question

ChatMessage(role, content) == [role |-> role, content |-> content]

(***************************************************************************)
(* The records QueryEngine.query returns.                                  *)
(***************************************************************************)
EmptyQuestionRecord ==
    [answer |-> <<"Please provide a valid question.">>,
     citations |-> <<>>, sources |-> {}, confidence |-> 0,
     source_documents |-> <<>>]

NoAnswerRecord ==
    [answer |-> <<"No answer found in the provided documents.">>,
     citations |-> <<>>, sources |-> {}, confidence |-> 0,
     source_documents |-> <<>>]

\* the error record without the two fields the UI added later
ErrorRecordShort(e) ==
    [answer |-> <<"Error processing your question: ", e>>,
     citations |-> <<>>, confidence |-> 0]

ErrorRecord(e) ==
    [answer |-> <<"Error processing your question: ", e>>,
     citations |-> <<>>, sources |-> {}, confidence |-> 0,
     source_documents |-> <<>>]

\* lines 129-148 of query: the no-answer check, then the scored record
BuildRecord(response_text, cits, srcs, docs) ==
    IF IsNoAnswerResponse(response_text)
    THEN NoAnswerRecord
    ELSE [answer |-> response_text,
          citations |-> cits,
          sources |-> srcs,
          confidence |-> CalculateConfidence(response_text, cits, Len(docs)),
          source_documents |-> docs]

\* `not question`: the test without strip()
IsEmptyQuestionUnstripped(question) == question = <<>>

\* `not question.strip()`
IsEmptyQuestion(question) == Strip(question) = <<>>

(***************************************************************************)
(* The inputs the model draws: questions, retrieved chunks, LLM responses. *)
(***************************************************************************)
Chunk(md, len, score) ==
    [metadata |-> md, text |-> len, score |-> score, readable |-> TRUE]

ChunkA3 == Chunk([file_name |-> "a.pdf", page |-> 3], 120, 80)
\* a second chunk of the same page, with a text longer than a snippet
ChunkA3Long == Chunk([file_name |-> "a.pdf", page |-> 3], 250, 70)
ChunkB2 == Chunk([file_name |-> "b.pdf", page |-> 2], 40, 60)
\* metadata without file_name and page
ChunkBare == Chunk(<<>>, 301, 50)
\* metadata is None: reading it raises
ChunkUnreadable ==
    [metadata |-> <<>>, text |-> 0, score |-> 0, readable |-> FALSE]

NodeLists ==
    {<<>>, <<ChunkA3>>, <<ChunkA3, ChunkA3Long>>, <<ChunkBare, ChunkB2>>,
     <<ChunkA3, ChunkUnreadable, ChunkB2>>,
     <<ChunkA3, ChunkB2, ChunkBare, ChunkA3Long, ChunkA3>>}

CoreNodeLists == {<<>>, <<ChunkA3>>}

NoAnswerTexts ==
    {<<ph>> : ph \in NoAnswerIndicators}
    \cup {<<"No Answer Found">>,
          <<"w", "Cannot Find", "[Source: a.pdf, Page: 3]">>,
          Pad(12) \o <<"According To", "not found in the documents">>}

AnswerTexts ==
    {<<>>, <<"w">>, Pad(10), Pad(21), Pad(51),
     <<"w", "[Source: a.pdf, Page: 3]">>,
     <<"[Source: a.pdf, Page: 3]", "w", "[Source: a.pdf, Page: 3]">>,
     <<"a.pdf - Page 3", "(b.pdf, p. 0)", "[source: b.pdf, page: 2]">>,
     <<"[Source: a.pdf, Page: x]", "Specifies">>,
     Pad(49) \o <<"According To">>}

CoreTexts ==
    {<<"w", "[Source: a.pdf, Page: 3]">>, <<"No Answer Found">>,
     Pad(8) \o <<"states that">>}

\* a response object, with and without the source_nodes attribute
Response(text, nodes) == [text |-> text, source_nodes |-> nodes]
BareResponse(text) == [text |-> text]

AllResponses ==
    {Response(t, n) : t \in NoAnswerTexts \cup AnswerTexts, n \in NodeLists}
    \cup {BareResponse(t) : t \in {<<"w", "[Source: a.pdf, Page: 3]">>}}

CoreResponses == {Response(t, n) : t \in CoreTexts, n \in CoreNodeLists}

AllQuestions == {<<>>, <<" ">>, <<" ", " ">>, <<"q1">>, <<" ", "q2", " ">>}
CoreQuestions == {<<>>, <<"q1">>}

\* A fresh conversation explores every input; follow-up exchanges draw from
\* the core inputs, which keeps the tree of conversations finite.
QuestionsFor(mem) == IF mem = <<>> THEN AllQuestions ELSE CoreQuestions
ResponsesFor(mem) == IF mem = <<>> THEN AllResponses ELSE CoreResponses

(***************************************************************************)
(* The query engine as a state machine.                                    *)
(***************************************************************************)
VARIABLES
    pc,                       \* where query() is
    memory,                   \* the ChatMemoryBuffer's store, oldest first
    question,                 \* query's argument
    chat_history,             \* what memory.get() returned in _add_context
    contextualized_question,  \* what _add_context returned
    called,                   \* citation_engine.query was called in this query
    response,                 \* <<>> or <<the response object>>
    citations, sources, source_documents,
    result,                   \* <<>> or <<the record query returned>>
    memory_at_entry,          \* the store when query was entered
    failures,                 \* the calls that raised during this query
    \* a direct call of _calculate_confidence: its arguments and its value
    sc_pc, sc_text, sc_citations, sc_num_sources, sc_confidence,
    \* a direct call of _extract_citations_from_response
    ex_pc, ex_response, ex_citations,
    \* one batch of files: the function called, its argument, the index of
    \* the file the loop is at, results, processed_hashes, the names already
    \* in the database, and the files parse_pdf was called on
    b_pc, b_files, b_i, results, processed_hashes, indexed_files, parsed,
    \* the Streamlit session: <<>> when the engine is used without one, else
    \* <<[chat_history |-> the turns displayed]>>
    session_state,
    \* history variable: <<n>> from a Clear Chat Memory that dropped n memory
    \* entries until the next query has returned, <<>> otherwise
    cleared,
    \* IndexBuilder: the method called, max_retries, how each connection
    \* attempt made so far ended, what _wait_for_neo4j returned, the database,
    \* the statements executed on it, and what the method returned or raised
    ib_pc, caller, max_retries, attempts, ready, database, executed, outcome

scorer == <<sc_pc, sc_text, sc_citations, sc_num_sources, sc_confidence>>
extractor == <<ex_pc, ex_response, ex_citations>>
batch == <<b_pc, b_files, b_i, results, processed_hashes, indexed_files, parsed>>
engine == <<pc, memory, question, chat_history, contextualized_question, called,
            response, citations, sources, source_documents, result,
            memory_at_entry, failures>>

ui == <<session_state, cleared>>
builder == <<ib_pc, caller, max_retries, attempts, ready, database, executed, outcome>>

vars == <<engine, scorer, extractor, batch, ui, builder>>

NoLocals ==
    /\ question = <<>>
    /\ chat_history = <<>>
    /\ contextualized_question = <<>>
    /\ called = FALSE
    /\ response = <<>>
    /\ citations = <<>>
    /\ sources = {}
    /\ source_documents = <<>>
    /\ result = <<>>
    /\ failures = {}

ScorerOff ==
    /\ sc_pc = "off"
    /\ sc_text = <<>>
    /\ sc_citations = <<>>
    /\ sc_num_sources = 0
    /\ sc_confidence = <<>>

ExtractorOff ==
    /\ ex_pc = "off"
    /\ ex_response = <<>>
    /\ ex_citations = <<>>

NoSession ==
    /\ session_state = <<>>
    /\ cleared = <<>>

BuilderOff ==
    /\ ib_pc = "off"
    /\ caller = ""
    /\ max_retries = 0
    /\ attempts = <<>>
    /\ ready = <<>>
    /\ database = <<>>
    /\ executed = <<>>
    /\ outcome = <<>>

BatchOff ==
    /\ b_pc = "off"
    /\ b_files = <<>>
    /\ b_i = 0
    /\ results = <<>>
    /\ processed_hashes = {}
    /\ indexed_files = {}
    /\ parsed = <<>>

EngineAt(at) ==
    /\ pc = at
    /\ memory = <<>>
    /\ memory_at_entry = <<>>
    /\ NoLocals

\* the engine after construction: lines 31-39
Init ==
    /\ EngineAt("idle")
    /\ ScorerOff
    /\ ExtractorOff
    /\ BatchOff
    /\ NoSession
    /\ BuilderOff

\* query(question) is entered; lines 99-106
Query(q) ==
    /\ pc = "idle"
    /\ Len(memory) < 2 * MaxExchanges
    /\ session_state # <<>> => Len(session_state[1].chat_history) < MaxTurns
    /\ question' = q
    /\ memory_at_entry' = memory
    /\ IF IsEmptyQuestion(q)
       THEN /\ result' = <<EmptyQuestionRecord>>
            /\ pc' = "returned"
       ELSE /\ result' = <<>>
            /\ pc' = "add_context"
    /\ UNCHANGED <<memory, chat_history, contextualized_question, called,
                   response, citations, sources, source_documents, failures>>
    /\ UNCHANGED <<scorer, extractor, batch, ui, builder>>

\* memory.get() returns the entries within the token budget: the newest ones
Suffixes(store) == {SubSeq(store, k, Len(store)) : k \in 1..(Len(store) + 1)}

\* line 111, _add_context with memory.get() returning
AddContext(history) ==
    /\ pc = "add_context"
    /\ chat_history' = history
    /\ contextualized_question' = AddContextText(history, question)
    /\ pc' = "call"
    /\ UNCHANGED <<memory, question, called, response, citations, sources,
                   source_documents, result, memory_at_entry, failures>>
    /\ UNCHANGED <<scorer, extractor, batch, ui, builder>>

\* a failing memory.get() that ends the query with the error record
AddContextFailsBlocks ==
    /\ pc = "add_context"
    /\ chat_history' = <<>>
    /\ contextualized_question' = <<>>
    /\ failures' = failures \cup {"memory.get"}
    /\ result' = <<ErrorRecord("memory unavailable")>>
    /\ pc' = "returned"
    /\ UNCHANGED <<memory, question, called, response, citations, sources,
                   source_documents, memory_at_entry>>
    /\ UNCHANGED <<scorer, extractor, batch, ui, builder>>

\* line 111, _add_context with memory.get() raising; lines 178-180
AddContextFails ==
    /\ pc = "add_context"
    /\ chat_history' = <<>>
    /\ contextualized_question' = question
    /\ failures' = failures \cup {"memory.get"}
    /\ pc' = "call"
    /\ UNCHANGED <<memory, question, called, response, citations, sources,
                   source_documents, result, memory_at_entry>>
    /\ UNCHANGED <<scorer, extractor, batch, ui, builder>>

\* lines 114-115, the retrieval/LLM call returning; the locals of
\* _add_context are dead from here on
CitationEngineQuery(r) ==
    /\ pc = "call"
    /\ called' = TRUE
    /\ response' = <<r>>
    /\ chat_history' = <<>>
    /\ contextualized_question' = <<>>
    /\ pc' = "extract"
    /\ UNCHANGED <<memory, question, citations, sources, source_documents,
                   result, memory_at_entry, failures>>
    /\ UNCHANGED <<scorer, extractor, batch, ui, builder>>

\* the user message put before the call that fails
CitationEngineFailsAfterPut ==
    /\ pc = "call"
    /\ called' = TRUE
    /\ failures' = failures \cup {"citation_engine.query"}
    /\ result' = <<ErrorRecord("service unavailable")>>
    /\ chat_history' = <<>>
    /\ contextualized_question' = <<>>
    /\ memory' = Append(memory, ChatMessage("user", question))
    /\ pc' = "returned"
    /\ UNCHANGED <<question, response, citations, sources,
                   source_documents, memory_at_entry>>
    /\ UNCHANGED <<scorer, extractor, batch, ui, builder>>

\* line 114 raising; lines 150-158
CitationEngineFails ==
    /\ pc = "call"
    /\ called' = TRUE
    /\ failures' = failures \cup {"citation_engine.query"}
    /\ result' = <<ErrorRecord("service unavailable")>>
    /\ chat_history' = <<>>
    /\ contextualized_question' = <<>>
    /\ pc' = "returned"
    /\ UNCHANGED <<memory, question, response, citations, sources,
                   source_documents, memory_at_entry>>
    /\ UNCHANGED <<scorer, extractor, batch, ui, builder>>

\* lines 118-120
Extract ==
    /\ pc = "extract"
    /\ citations' = ExtractCitationsFromResponse(response[1])
    /\ sources' = ExtractSourcesFromResponse(response[1])
    /\ source_documents' = ExtractSourceDocuments(response[1])
    /\ failures' = IF FirstUnreadable(SourceNodes(response[1])) # 0
                   THEN failures \cup {"extraction"}
                   ELSE failures
    /\ pc' = "put"
    /\ UNCHANGED <<memory, question, chat_history, contextualized_question,
                   called, response, result, memory_at_entry>>
    /\ UNCHANGED <<scorer, extractor, batch, ui, builder>>

\* only the user message is put
PutUserMessage(store, q, response_text) == Append(store, ChatMessage("user", q))

\* the assistant entry holds the answer that is returned
PutReturnedAnswer(store, q, response_text) ==
    Append(Append(store, ChatMessage("user", q)),
           ChatMessage("assistant",
               IF IsNoAnswerResponse(response_text)
               THEN NoAnswerRecord.answer ELSE response_text))

\* lines 123-127
PutMessages(store, q, response_text) ==
    Append(Append(store, ChatMessage("user", q)),
           ChatMessage("assistant", response_text))

\* the record is built first and the two messages are put last
MemoryPutAfterScoring ==
    /\ pc = "put"
    /\ result' = <<BuildRecord(Str(response[1]), citations, sources,
                               source_documents)>>
    /\ memory' = PutMessages(memory, question, Str(response[1]))
    /\ pc' = "returned"
    /\ UNCHANGED <<question, chat_history, contextualized_question, called,
                   response, citations, sources, source_documents,
                   memory_at_entry, failures>>
    /\ UNCHANGED <<scorer, extractor, batch, ui, builder>>

MemoryPut ==
    /\ pc = "put"
    /\ memory' = PutMessages(memory, question, Str(response[1]))
    /\ pc' = "decide"
    /\ UNCHANGED <<question, chat_history, contextualized_question, called,
                   response, citations, sources, source_documents, result,
                   memory_at_entry, failures>>
    /\ UNCHANGED <<scorer, extractor, batch, ui, builder>>

\* lines 129-148
Decide ==
    /\ pc = "decide"
    /\ result' = <<BuildRecord(Str(response[1]), citations, sources,
                               source_documents)>>
    /\ pc' = "returned"
    /\ UNCHANGED <<memory, question, chat_history, contextualized_question,
                   called, response, citations, sources, source_documents,
                   memory_at_entry, failures>>
    /\ UNCHANGED <<scorer, extractor, batch, ui, builder>>

\* {**response, "question": user_query}
ChatTurn(record, user_query) ==
    [answer |-> record.answer, citations |-> record.citations,
     sources |-> record.sources, confidence |-> record.confidence,
     source_documents |-> record.source_documents, question |-> user_query]

\* query has returned to its caller; its locals are gone.  In a Streamlit
\* session the caller is on_submit_query, which appends the record and the
\* question to st.session_state["chat_history"].
Return ==
    /\ pc = "returned"
    /\ pc' = "idle"
    /\ question' = <<>>
    /\ chat_history' = <<>>
    /\ contextualized_question' = <<>>
    /\ called' = FALSE
    /\ response' = <<>>
    /\ citations' = <<>>
    /\ sources' = {}
    /\ source_documents' = <<>>
    /\ result' = <<>>
    /\ failures' = {}
    /\ session_state' =
           IF session_state = <<>> THEN <<>>
           ELSE <<[chat_history |->
                     Append(session_state[1].chat_history,
                            ChatTurn(result[1], question))]>>
    /\ cleared' = <<>>
    /\ UNCHANGED <<memory, memory_at_entry>>
    /\ UNCHANGED <<scorer, extractor, batch, builder>>

Next ==
    \/ \E q \in QuestionsFor(memory) : Query(q)
    \/ \E h \in Suffixes(memory) : AddContext(h)
    \/ AddContextFails
    \/ \E r \in ResponsesFor(memory) : CitationEngineQuery(r)
    \/ CitationEngineFails
    \/ Extract
    \/ MemoryPut
    \/ Decide
    \/ Return

Spec == Init /\ [][Next]_vars

(***************************************************************************)
(* _calculate_confidence called directly, on arguments drawn from bounded  *)
(* sets: an answer of p plain words with or without a factual indicator,   *)
(* a list of c citations and a source count s.                             *)
(***************************************************************************)
IndicatorTexts ==
    {<<>>, <<"According To">>, <<"states that">>, <<"Specifies">>,
     <<"indicates">>, <<"w", "indicates", "specifies">>}

SomeCitations(c) == [i \in 1..c |-> [file |-> "a.pdf", page |-> i,
                                      type |-> "text_citation"]]

InitScore ==
    /\ EngineAt("off")
    /\ ExtractorOff
    /\ BatchOff
    /\ NoSession
    /\ BuilderOff
    /\ sc_pc = "ready"
    /\ \E p \in 0..MaxPad, k \in IndicatorTexts : sc_text = Pad(p) \o k
    /\ \E c \in 0..MaxCitations : sc_citations = SomeCitations(c)
    /\ sc_num_sources \in 0..MaxSources
    /\ sc_confidence = <<>>

Score ==
    /\ sc_pc = "ready"
    /\ sc_confidence' =
           <<CalculateConfidence(sc_text, sc_citations, sc_num_sources)>>
    /\ sc_pc' = "done"
    /\ UNCHANGED <<sc_text, sc_citations, sc_num_sources, engine, extractor, batch,
                   ui, builder>>

NextScore == Score

SpecScore == InitScore /\ [][NextScore]_vars

(***************************************************************************)
(* _extract_citations_from_response called directly, on every answer text  *)
(* of at most MaxTextLen tokens and every list of at most MaxNodes chunks. *)
(***************************************************************************)
SeqsUpTo(S, n) == UNION {[1..k -> S] : k \in 0..n}

TextTokens ==
    {"w", "[Source: a.pdf, Page: 3]", "a.pdf - Page 3", "(b.pdf, p. 0)",
     "[Source: a.pdf, Page: x]"}

\* a chunk whose text is exactly as long as a snippet may be
ChunkC1 == Chunk([file_name |-> "c.pdf", page |-> 1], 200, 90)

Chunks == {ChunkA3, ChunkA3Long, ChunkB2, ChunkBare, ChunkUnreadable, ChunkC1}

InitExtract ==
    /\ EngineAt("off")
    /\ ScorerOff
    /\ BatchOff
    /\ NoSession
    /\ BuilderOff
    /\ ex_pc = "ready"
    /\ \E t \in SeqsUpTo(TextTokens, MaxTextLen), n \in SeqsUpTo(Chunks, MaxNodes) :
           ex_response = <<Response(t, n)>>
    /\ ex_citations = <<>>

ExtractCitations ==
    /\ ex_pc = "ready"
    /\ ex_citations' = ExtractCitationsFromResponse(ex_response[1])
    /\ ex_pc' = "done"
    /\ UNCHANGED <<ex_response, engine, scorer, batch, ui, builder>>

NextExtract == ExtractCitations

SpecExtract == InitExtract /\ [][NextExtract]_vars

(***************************************************************************)
(* Batch processing of files: parse_multiple_pdfs (document_parser.py) and *)
(* process_uploaded_files (main.py).  A file is its path, whether it       *)
(* exists, its content (which fixes its MD5), its first four bytes, its    *)
(* size in megabytes and the number of pages the parser returns for it.    *)
(***************************************************************************)
File(path, exists, content, header, megabytes, pages) ==
    [path |-> path, exists |-> exists, content |-> content, header |-> header,
     megabytes |-> megabytes, pages |-> pages]

FileA == File("a.pdf", TRUE, "h1", "%PDF", 1, 2)
\* the same bytes under another name
FileACopy == File("copy.pdf", TRUE, "h1", "%PDF", 1, 2)
FileB == File("B.PDF", TRUE, "h2", "%PDF", 2, 1)
FileMissing == File("gone.pdf", FALSE, "", "", 0, 0)
FileNotes == File("notes.txt", TRUE, "h3", "Dear", 1, 0)
FileFake == File("fake.pdf", TRUE, "h4", "<htm", 1, 0)
FileHuge == File("huge.pdf", TRUE, "h5", "%PDF", 60, 9)

Files == {FileA, FileACopy, FileB, FileMissing, FileNotes, FileFake, FileHuge}

\* an uploaded file always has a buffer, which is written to temp_path
Uploads == Files \ {FileMissing}

\* file_path.lower().endswith('.pdf')
EndsWithPdf(path) == path \in {"a.pdf", "copy.pdf", "B.PDF", "gone.pdf",
                               "fake.pdf", "huge.pdf"}

\* get_file_hash: the MD5 of the content, "" when the file cannot be read
GetFileHash(file) == IF file.exists THEN file.content ELSE ""

\* the size limit of validate_pdf, in megabytes
MaxPdfMegabytes == 50

ValidatePdf(file) ==
    /\ file.exists
    /\ EndsWithPdf(file.path)
    /\ ~(file.megabytes > MaxPdfMegabytes)
    /\ file.header = "%PDF"

\* the documents parse_pdf returns, one per page, with their metadata
ParsePdf(file) ==
    [i \in 1..file.pages |->
        [file_name |-> file.path, page |-> i, file_hash |-> GetFileHash(file)]]

\* the exception parse_pdf raises when the parsing service fails
ParsePdfError == "Failed to parse PDF: service unavailable"

NewResults(files) ==
    [documents |-> <<>>, errors |-> <<>>,
     stats |-> [total_files |-> Len(files), successful_files |-> 0,
                failed_files |-> 0, total_pages |-> 0, total_size |-> 0]]

\* an error entry is appended without the file being counted
AddErrorUncounted(res, entry) ==
    [res EXCEPT !.errors = Append(@, entry)]

\* an error entry is appended and the file is counted as failed
AddError(res, entry) ==
    [res EXCEPT !.errors = Append(@, entry),
                !.stats.failed_files = @ + 1]

AddDocuments(res, docs, size) ==
    [res EXCEPT !.documents = @ \o docs,
                !.stats.successful_files = @ + 1,
                !.stats.total_pages = @ + Len(docs),
                !.stats.total_size = @ + size]

\* the file the loop is at
TheFile == b_files[b_i]

\* an uploaded file as written to temp_path
TempFile == [TheFile EXCEPT !.exists = TRUE]

InLoop(fn) ==
    /\ b_pc = fn
    /\ b_i \in 1..Len(b_files)

NextFile ==
    /\ b_i' = b_i + 1
    /\ UNCHANGED <<b_pc, b_files, indexed_files>>
    /\ UNCHANGED <<engine, scorer, extractor, ui, builder>>

InitBatch ==
    /\ EngineAt("off")
    /\ ScorerOff
    /\ ExtractorOff
    /\ NoSession
    /\ BuilderOff
    /\ b_pc = "ready"
    /\ b_files = <<>>
    /\ b_i = 0
    /\ results = <<>>
    /\ processed_hashes = {}
    /\ indexed_files \in {{}, {"a.pdf"}}
    /\ parsed = <<>>

\* parse_multiple_pdfs(file_paths) is entered; lines 86-100
ParseMultiplePdfs(files) ==
    /\ b_pc = "ready"
    /\ b_pc' = "parse_multiple_pdfs"
    /\ b_files' = files
    /\ b_i' = 1
    /\ results' = <<NewResults(files)>>
    /\ processed_hashes' = {}
    /\ UNCHANGED <<indexed_files, parsed>>
    /\ UNCHANGED <<engine, scorer, extractor, ui, builder>>

\* lines 105-112: the hash is among the processed ones
DuplicateFile ==
    /\ InLoop("parse_multiple_pdfs")
    /\ GetFileHash(TheFile) \in processed_hashes
    /\ results' = <<AddError(results[1],
                       [file_path |-> TheFile.path,
                        error |-> "Duplicate file detected"])>>
    /\ UNCHANGED <<processed_hashes, parsed>>
    /\ NextFile

\* lines 115-121: validate_pdf returns False
InvalidFile ==
    /\ InLoop("parse_multiple_pdfs")
    /\ GetFileHash(TheFile) \notin processed_hashes
    /\ ~ValidatePdf(TheFile)
    /\ results' = <<AddError(results[1],
                       [file_path |-> TheFile.path,
                        error |-> "Invalid PDF file"])>>
    /\ UNCHANGED <<processed_hashes, parsed>>
    /\ NextFile

\* lines 124-139: parse_pdf returns
ParsedFile ==
    /\ InLoop("parse_multiple_pdfs")
    /\ GetFileHash(TheFile) \notin processed_hashes
    /\ ValidatePdf(TheFile)
    /\ parsed' = Append(parsed, TheFile.path)
    /\ results' = <<AddDocuments(results[1], ParsePdf(TheFile),
                                 TheFile.megabytes)>>
    /\ processed_hashes' = processed_hashes \cup {GetFileHash(TheFile)}
    /\ NextFile

\* line 124 raising; lines 141-148
ParseFileFails ==
    /\ InLoop("parse_multiple_pdfs")
    /\ GetFileHash(TheFile) \notin processed_hashes
    /\ ValidatePdf(TheFile)
    /\ parsed' = Append(parsed, TheFile.path)
    /\ results' = <<AddError(results[1],
                       [file_path |-> TheFile.path, error |-> ParsePdfError])>>
    /\ UNCHANGED processed_hashes
    /\ NextFile

\* process_uploaded_files(uploaded_files) is entered; lines 123-129
ProcessUploadedFiles(files) ==
    /\ b_pc = "ready"
    /\ b_pc' = "process_uploaded_files"
    /\ b_files' = files
    /\ b_i' = 1
    /\ results' = <<NewResults(files)>>
    /\ UNCHANGED <<processed_hashes, indexed_files, parsed>>
    /\ UNCHANGED <<engine, scorer, extractor, ui, builder>>

\* lines 131-134: the name is already in the database
ExistingUpload ==
    /\ InLoop("process_uploaded_files")
    /\ TheFile.path \in indexed_files
    /\ results' = <<AddError(results[1],
                       [file_name |-> TheFile.path,
                        error |-> "File already exists in the database. Skipped."])>>
    /\ UNCHANGED <<processed_hashes, parsed>>
    /\ NextFile

\* lines 136-142: validate_pdf returns False for the temporary copy
InvalidUpload ==
    /\ InLoop("process_uploaded_files")
    /\ TheFile.path \notin indexed_files
    /\ ~ValidatePdf(TempFile)
    /\ results' = <<AddError(results[1],
                       [file_name |-> TheFile.path,
                        error |-> "Invalid PDF file"])>>
    /\ UNCHANGED <<processed_hashes, parsed>>
    /\ NextFile

\* lines 143-151: parse_pdf returns
ParsedUpload ==
    /\ InLoop("process_uploaded_files")
    /\ TheFile.path \notin indexed_files
    /\ ValidatePdf(TempFile)
    /\ parsed' = Append(parsed, TheFile.path)
    /\ results' = <<AddDocuments(results[1], ParsePdf(TempFile),
                                 TheFile.megabytes)>>
    /\ UNCHANGED processed_hashes
    /\ NextFile

\* line 143 raising; lines 152-156
ParseUploadFails ==
    /\ InLoop("process_uploaded_files")
    /\ TheFile.path \notin indexed_files
    /\ ValidatePdf(TempFile)
    /\ parsed' = Append(parsed, TheFile.path)
    /\ results' = <<AddError(results[1],
                       [file_name |-> TheFile.path, error |-> ParsePdfError])>>
    /\ UNCHANGED processed_hashes
    /\ NextFile

\* the loop is over and results is returned
BatchReturns ==
    /\ b_pc \in {"parse_multiple_pdfs", "process_uploaded_files"}
    /\ b_i = Len(b_files) + 1
    /\ b_pc' = "done"
    /\ UNCHANGED <<b_files, b_i, results, processed_hashes, indexed_files, parsed>>
    /\ UNCHANGED <<engine, scorer, extractor, ui, builder>>

NextBatch ==
    \/ \E files \in SeqsUpTo(Files, MaxBatch) : ParseMultiplePdfs(files)
    \/ DuplicateFile
    \/ InvalidFile
    \/ ParsedFile
    \/ ParseFileFails
    \/ \E files \in SeqsUpTo(Uploads, MaxBatch) : ProcessUploadedFiles(files)
    \/ ExistingUpload
    \/ InvalidUpload
    \/ ParsedUpload
    \/ ParseUploadFails
    \/ BatchReturns

SpecBatch == InitBatch /\ [][NextBatch]_vars

(***************************************************************************)
(* The engine in a Streamlit session (main.py): questions are submitted    *)
(* through on_submit_query, and the Clear Chat Memory button resets the    *)
(* engine's memory and the displayed history.                              *)
(***************************************************************************)
\* memory_token_limit as main.py passes it by default
MemoryTokenLimit == 3000

\* get_memory_stats, given what memory.get() returned
GetMemoryStats(history) ==
    [messages_count |-> IF history # <<>> THEN Len(history) ELSE 0,
     memory_limit |-> MemoryTokenLimit,
     has_context |-> history # <<>>]

\* the displayed history is reset and the memory is left as it is
ClearChatHistoryOnly ==
    /\ pc = "idle"
    /\ session_state # <<>>
    /\ session_state' = <<[chat_history |-> <<>>]>>
    /\ cleared' = <<Len(memory)>>
    /\ UNCHANGED engine
    /\ UNCHANGED <<scorer, extractor, batch, builder>>

\* main.py lines 212-217 with clear_memory, lines 350-356
ClearChatMemory ==
    /\ pc = "idle"
    /\ session_state # <<>>
    /\ memory' = <<>>
    /\ session_state' = <<[chat_history |-> <<>>]>>
    /\ cleared' = <<Len(memory)>>
    /\ UNCHANGED <<pc, question, chat_history, contextualized_question, called,
                   response, citations, sources, source_documents, result,
                   memory_at_entry, failures>>
    /\ UNCHANGED <<scorer, extractor, batch, builder>>

\* on_submit_query runs only for a non-empty user_query
ChatQuestions == {<<" ">>, <<"q1">>}

InitChat ==
    /\ EngineAt("idle")
    /\ ScorerOff
    /\ ExtractorOff
    /\ BatchOff
    /\ BuilderOff
    /\ session_state = <<[chat_history |-> <<>>]>>
    /\ cleared = <<>>

NextChat ==
    \/ \E q \in ChatQuestions : Query(q)
    \/ \E h \in Suffixes(memory) : AddContext(h)
    \/ AddContextFails
    \/ \E r \in CoreResponses : CitationEngineQuery(r)
    \/ CitationEngineFails
    \/ Extract
    \/ MemoryPut
    \/ Decide
    \/ Return
    \/ ClearChatMemory

SpecChat == InitChat /\ [][NextChat]_vars

(***************************************************************************)
(* IndexBuilder (index_builder.py): _wait_for_neo4j and the three methods  *)
(* that call it before they use the database.  The database is the set of  *)
(* file names its Chunk nodes carry and whether the vector index exists.   *)
(***************************************************************************)
\* max_retries when the caller gives none
DefaultMaxRetries == 5

Database(chunks, index) == [chunks |-> chunks, index |-> index]

Databases == {Database({}, FALSE), Database({"a.pdf"}, FALSE),
              Database({"a.pdf", "b.pdf"}, TRUE)}

Callers == {"_create_vector_store", "get_existing_document_names",
            "delete_all_documents"}

\* sorted([record["fileName"] for record in records])
SortedNames(names) ==
    IF names = {"a.pdf", "b.pdf"} THEN <<"a.pdf", "b.pdf">>
    ELSE IF names = {"a.pdf"} THEN <<"a.pdf">>
    ELSE IF names = {"b.pdf"} THEN <<"b.pdf">>
    ELSE <<>>

Returns(value) == [returned |-> value]
Raises(exception) == [raised |-> exception]

InitBuilder ==
    /\ EngineAt("off")
    /\ ScorerOff
    /\ ExtractorOff
    /\ BatchOff
    /\ NoSession
    /\ ib_pc = "idle"
    /\ caller = ""
    /\ max_retries = 0
    /\ attempts = <<>>
    /\ ready = <<>>
    /\ database \in Databases
    /\ executed = <<>>
    /\ outcome = <<>>

BuilderFrame == UNCHANGED <<engine, scorer, extractor, batch, ui>>

\* a method is entered; _wait_for_neo4j starts with no attempt made
Call(method, retries) ==
    /\ ib_pc = "idle"
    /\ ib_pc' = "waiting"
    /\ caller' = method
    /\ max_retries' = retries
    /\ UNCHANGED <<attempts, ready, database, executed, outcome>>
    /\ BuilderFrame

\* an attempt that connects, after which the loop goes on all the same
AttemptSucceedsAndRetries ==
    /\ ib_pc = "waiting"
    /\ Len(attempts) < max_retries
    /\ attempts' = Append(attempts, "ok")
    /\ ready' = <<TRUE>>
    /\ UNCHANGED <<ib_pc, caller, max_retries, database, executed, outcome>>
    /\ BuilderFrame

\* lines 53-56: verify_connectivity returns
AttemptSucceeds ==
    /\ ib_pc = "waiting"
    /\ Len(attempts) < max_retries
    /\ attempts' = Append(attempts, "ok")
    /\ ready' = <<TRUE>>
    /\ ib_pc' = "waited"
    /\ UNCHANGED <<caller, max_retries, database, executed, outcome>>
    /\ BuilderFrame

\* lines 57-59: ServiceUnavailable is caught, the loop sleeps and goes on
AttemptUnavailable ==
    /\ ib_pc = "waiting"
    /\ Len(attempts) < max_retries
    /\ attempts' = Append(attempts, "unavailable")
    /\ UNCHANGED <<ib_pc, caller, max_retries, ready, database, executed, outcome>>
    /\ BuilderFrame

\* lines 53-54 raising another exception (wrong credentials, a malformed
\* URI): nothing catches it, in _wait_for_neo4j or in its callers
AttemptRaises ==
    /\ ib_pc = "waiting"
    /\ Len(attempts) < max_retries
    /\ attempts' = Append(attempts, "error")
    /\ outcome' = <<Raises("AuthError")>>
    /\ ib_pc' = "done"
    /\ UNCHANGED <<caller, max_retries, ready, database, executed>>
    /\ BuilderFrame

\* lines 61-62: the loop is over
RetriesExhausted ==
    /\ ib_pc = "waiting"
    /\ Len(attempts) = max_retries
    /\ ready' = <<FALSE>>
    /\ ib_pc' = "waited"
    /\ UNCHANGED <<caller, max_retries, attempts, database, executed, outcome>>
    /\ BuilderFrame

Waited(method, isReady) ==
    /\ ib_pc = "waited"
    /\ caller = method
    /\ ready = <<isReady>>

Done(value) ==
    /\ outcome' = <<value>>
    /\ ib_pc' = "done"
    /\ UNCHANGED <<caller, max_retries, attempts, ready>>
    /\ BuilderFrame

\* _wait_for_neo4j called on its own returns to its caller
WaitReturns ==
    /\ ib_pc = "waited"
    /\ caller = "_wait_for_neo4j"
    /\ UNCHANGED <<database, executed>>
    /\ Done(Returns(ready[1]))

\* lines 87-88
CreateVectorStoreRefuses ==
    /\ Waited("_create_vector_store", FALSE)
    /\ UNCHANGED <<database, executed>>
    /\ Done(Raises("RuntimeError: Neo4j connection failed."))

\* lines 90-103: the store is created, and with it the index if there was none
CreateVectorStore ==
    /\ Waited("_create_vector_store", TRUE)
    /\ executed' = Append(executed, "Neo4jVectorStore")
    /\ database' = [database EXCEPT !.index = TRUE]
    /\ Done(Returns("vector_store"))

\* lines 104-106: the embedding call or the store raises
CreateVectorStoreFails ==
    /\ Waited("_create_vector_store", TRUE)
    /\ UNCHANGED <<database, executed>>
    /\ Done(Raises("Exception"))

\* lines 147-149
GetExistingDocumentNamesGivesUp ==
    /\ Waited("get_existing_document_names", FALSE)
    /\ UNCHANGED <<database, executed>>
    /\ Done(Returns(<<>>))

\* lines 151-160
GetExistingDocumentNames ==
    /\ Waited("get_existing_document_names", TRUE)
    /\ executed' = Append(executed, "MATCH (c:Chunk) ... RETURN DISTINCT c.file_name")
    /\ UNCHANGED database
    /\ Done(Returns(SortedNames(database.chunks)))

\* lines 161-163
GetExistingDocumentNamesFails ==
    /\ Waited("get_existing_document_names", TRUE)
    /\ UNCHANGED <<database, executed>>
    /\ Done(Returns(<<>>))

\* lines 170-172
DeleteAllDocumentsGivesUp ==
    /\ Waited("delete_all_documents", FALSE)
    /\ UNCHANGED <<database, executed>>
    /\ Done(Returns("None"))

\* lines 174-187
DeleteAllDocuments ==
    /\ Waited("delete_all_documents", TRUE)
    /\ executed' = executed
                   \o <<"MATCH (c:Chunk) DETACH DELETE c", "SHOW INDEXES">>
                   \o (IF database.index THEN <<"DROP INDEX vector">> ELSE <<>>)
    /\ database' = Database({}, FALSE)
    /\ Done(Returns("None"))

\* lines 188-190: a statement raises, the earlier ones are done
DeleteAllDocumentsFails(done) ==
    /\ Waited("delete_all_documents", TRUE)
    /\ done \in 0..(IF database.index THEN 2 ELSE 1)
    /\ executed' = executed \o SubSeq(<<"MATCH (c:Chunk) DETACH DELETE c",
                                        "SHOW INDEXES">>, 1, done)
    /\ database' = IF done >= 1 THEN [database EXCEPT !.chunks = {}] ELSE database
    /\ Done(Raises("Exception"))

NextBuilder ==
    \/ \E retries \in 0..MaxRetries : Call("_wait_for_neo4j", retries)
    \/ \E method \in Callers : Call(method, DefaultMaxRetries)
    \/ AttemptSucceeds
    \/ AttemptUnavailable
    \/ AttemptRaises
    \/ RetriesExhausted
    \/ WaitReturns
    \/ CreateVectorStoreRefuses
    \/ CreateVectorStore
    \/ CreateVectorStoreFails
    \/ GetExistingDocumentNamesGivesUp
    \/ GetExistingDocumentNames
    \/ GetExistingDocumentNamesFails
    \/ DeleteAllDocumentsGivesUp
    \/ DeleteAllDocuments
    \/ \E done \in 0..2 : DeleteAllDocumentsFails(done)

\* the loop and the methods are sequential code: a step that can be taken
\* is taken
SpecBuilder == InitBuilder /\ [][NextBuilder]_vars /\ WF_vars(NextBuilder)

\* the engine together with direct calls of the scorer
InitConfidence == Init \/ InitScore
NextConfidence == Next \/ NextScore
SpecConfidence == InitConfidence /\ [][NextConfidence]_vars

(***************************************************************************)
(* The claims.                                                             *)
(***************************************************************************)
Returned == pc = "returned"
TheResult == result[1]
TheResponse == response[1]
RecordFields == {"answer", "citations", "sources", "confidence", "source_documents"}

\* C1: the confidence of every record query returns (normal, no-answer,
\* empty-question and error path) and every value _calculate_confidence
\* returns lie in [0.0, 1.0], that is in 0..100 hundredths.
C1_ConfidenceInRange ==
    /\ result # <<>> =>
           /\ TheResult.confidence >= 0
           /\ TheResult.confidence <= 100
    /\ sc_confidence # <<>> =>
           /\ sc_confidence[1] >= 0
           /\ sc_confidence[1] <= 100

\* a direct call whose terms sum to -20 (no citation, a short answer) and is
\* clamped to 0
C1_Witness ==
    /\ sc_pc = "done"
    /\ sc_citations = <<>>
    /\ sc_num_sources = 0
    /\ WordCount(sc_text) < 10
    /\ \A i \in 1..Len(sc_text) : sc_text[i] = "w"
    /\ sc_confidence = <<0>>

\* C2: an LLM response whose lowercased text contains one of the nine
\* no-answer phrases gives exactly the canonical empty record, whatever
\* citations, chunks or other content it carries.
C2_Phrases ==
    {"no answer found", "no information found", "no relevant information",
     "not found in the documents", "no sources found", "cannot find",
     "unable to find", "not mentioned in the documents",
     "no specific information"}

C2_HasPhrase(text) == \E i \in 1..Len(text) : Lower(text[i]) \in C2_Phrases

C2_NoAnswerIsCanonical ==
    (Returned /\ response # <<>> /\ C2_HasPhrase(TheResponse.text)) =>
        result = <<[answer |-> <<"No answer found in the provided documents.">>,
                    citations |-> <<>>, sources |-> {}, confidence |-> 0,
                    source_documents |-> <<>>]>>

\* a mixed-case phrase in a response that also carries a textual citation
\* and retrieved chunks
C2_Witness ==
    /\ Returned
    /\ response # <<>>
    /\ \E i \in 1..Len(TheResponse.text) : TheResponse.text[i] = "Cannot Find"
    /\ \E i \in 1..Len(TheResponse.text) : PatternOf(TheResponse.text[i]) # 0
    /\ Len(SourceNodes(TheResponse)) > 1
    /\ citations # <<>>
    /\ TheResult.answer = <<"No answer found in the provided documents.">>
    /\ TheResult.citations = <<>>

\* C5: an empty or whitespace-only question gets the fixed record with the
\* answer "Please provide a valid question.", no citations and confidence
\* 0.0, and the retrieval/LLM service is not called.
C5_Blank(q) == \A i \in 1..Len(q) : q[i] = " "

C5_EmptyQuestionShortCircuits ==
    (pc \notin {"idle", "off"} /\ C5_Blank(question)) =>
        /\ Returned
        /\ TheResult.answer = <<"Please provide a valid question.">>
        /\ TheResult.citations = <<>>
        /\ TheResult.confidence = 0
        /\ ~called
        /\ response = <<>>

\* a question of two blanks, answered without a call
C5_Witness ==
    /\ Returned
    /\ question = <<" ", " ">>
    /\ ~called
    /\ TheResult.answer = <<"Please provide a valid question.">>

\* C6: _calculate_confidence returns, in hundredths,
\* clamp(30 + min(40, 10c) + (min(20, 5s) if s > 0) + (10 if w > 50, else 5
\* if w > 20) - (20 if w < 10) - (30 if c = 0) + (10 if the answer holds
\* 'according to', 'states that', 'specifies' or 'indicates' in any case),
\* 0, 100) for citation count c, source count s and word count w.
C6_Keyword(text) ==
    \E i \in 1..Len(text) :
        Lower(text[i]) \in {"according to", "states that", "specifies", "indicates"}

C6_Sum(c, s, w, k) ==
    30 + (IF 10 * c < 40 THEN 10 * c ELSE 40)
       + (IF s > 0 THEN (IF 5 * s < 20 THEN 5 * s ELSE 20) ELSE 0)
       + (IF w > 50 THEN 10 ELSE IF w > 20 THEN 5 ELSE 0)
       - (IF w < 10 THEN 20 ELSE 0)
       - (IF c = 0 THEN 30 ELSE 0)
       + (IF k THEN 10 ELSE 0)

C6_Formula(c, s, w, k) ==
    IF C6_Sum(c, s, w, k) < 0 THEN 0
    ELSE IF C6_Sum(c, s, w, k) > 100 THEN 100
    ELSE C6_Sum(c, s, w, k)

C6_ConfidenceFormula ==
    sc_pc = "done" =>
        sc_confidence = <<C6_Formula(Len(sc_citations), sc_num_sources,
                                     WordCount(sc_text), C6_Keyword(sc_text))>>

\* five citations, five sources, 51 words and an indicator: every bonus at
\* its cap, 110 before the clamp
C6_Witness ==
    /\ sc_pc = "done"
    /\ Len(sc_citations) = 5
    /\ sc_num_sources = 5
    /\ WordCount(sc_text) = 51
    /\ C6_Keyword(sc_text)
    /\ sc_confidence = <<100>>

\* C3 (as stated): every call to query, the empty-question path and a failed
\* external call included, appends exactly one user entry followed by
\* exactly one assistant entry.
C3_EveryQueryAppends ==
    Returned =>
        /\ Len(memory) = Len(memory_at_entry) + 2
        /\ SubSeq(memory, 1, Len(memory_at_entry)) = memory_at_entry
        /\ memory[Len(memory) - 1].role = "user"
        /\ memory[Len(memory)].role = "assistant"

\* C3 (amended): a query whose retrieval/LLM call returns a response, on the
\* normal and on the no-answer path, appends exactly the user entry with the
\* question followed by the assistant entry with the response text; a query
\* with an empty question or a failed external call appends nothing.
C3_AnsweredQueryAppends ==
    Returned =>
        IF response # <<>>
        THEN memory = memory_at_entry
                        \o <<[role |-> "user", content |-> question],
                             [role |-> "assistant", content |-> TheResponse.text]>>
        ELSE memory = memory_at_entry

\* a follow-up query on the no-answer path: two entries after the earlier ones
C3_Witness ==
    /\ Returned
    /\ memory_at_entry # <<>>
    /\ TheResult.answer = <<"No answer found in the provided documents.">>
    /\ Len(memory) = Len(memory_at_entry) + 2
    /\ memory[Len(memory)] = [role |-> "assistant", content |-> <<"No Answer Found">>]

C4_IsErrorRecord(r) ==
    /\ DOMAIN r = RecordFields
    /\ Len(r.answer) = 2
    /\ r.answer[1] = "Error processing your question: "
    /\ r.confidence = 0
    /\ r.citations = <<>>
    /\ r.sources = {}
    /\ r.source_documents = <<>>

\* C4 (as stated): any failure, of context injection and of extraction too,
\* yields the error record.
C4_EveryFailureIsAnErrorRecord ==
    (Returned /\ failures # {}) => C4_IsErrorRecord(TheResult)

\* C4 (amended): query always returns a record with all five fields; a
\* failure of the retrieval/LLM call yields the error record, whose answer
\* embeds the error message; a failure inside context injection or inside an
\* extraction helper is swallowed there and the query goes on to its normal
\* or no-answer record.
C4_FailuresBecomeRecords ==
    Returned =>
        /\ result # <<>>
        /\ DOMAIN TheResult = RecordFields
        /\ "citation_engine.query" \in failures =>
               /\ C4_IsErrorRecord(TheResult)
               /\ TheResult.answer[2] = "service unavailable"
        /\ (failures # {} /\ "citation_engine.query" \notin failures) =>
               /\ response # <<>>
               /\ \/ TheResult.answer = TheResponse.text
                  \/ TheResult.answer = <<"No answer found in the provided documents.">>

\* a follow-up query whose memory read failed and whose call failed
C4_Witness ==
    /\ Returned
    /\ failures = {"memory.get", "citation_engine.query"}
    /\ C4_IsErrorRecord(TheResult)

(***************************************************************************)
(* The citation list of a direct call: the key of an entry, its origin,    *)
(* the chunks that yield a structured citation and the textual matches.    *)
(***************************************************************************)
ExDone == ex_pc = "done"
ExNodes == ex_response[1].source_nodes
ExText == ex_response[1].text
KeyOf(c) == <<c.file, c.page>>
IsTextOrigin(c) == "type" \in DOMAIN c
\* chunk i is reached by the loop: no chunk up to it is unreadable
Yields(i) == \A j \in 1..i : ExNodes[j].readable
ChunkKey(i) ==
    <<IF "file_name" \in DOMAIN ExNodes[i].metadata
      THEN ExNodes[i].metadata.file_name ELSE Document(i),
      IF "page" \in DOMAIN ExNodes[i].metadata
      THEN ExNodes[i].metadata.page ELSE 1>>
ChunkKeys == {ChunkKey(i) : i \in {j \in 1..Len(ExNodes) : Yields(j)}}
TextKeys ==
    {<<MatchFile(ExText[i]), MatchPage(ExText[i])>> :
        i \in {j \in 1..Len(ExText) : PatternOf(ExText[j]) # 0}}
EntriesWith(k) == {j \in 1..Len(ex_citations) : KeyOf(ex_citations[j]) = k}

\* C7 (as stated): a key that a chunk and the answer text both cite has
\* exactly one entry, the structured one, and no key has both origins.
C7_ExactlyOneEntry ==
    ExDone =>
        \A k \in ChunkKeys \cap TextKeys :
            /\ Cardinality(EntriesWith(k)) = 1
            /\ \A j \in EntriesWith(k) : ~IsTextOrigin(ex_citations[j])

\* C7 (amended): a key that a chunk and the answer text both cite has no
\* text-pattern entry: its entries are the structured ones, one per chunk
\* with that key (exactly one when one chunk has it).
C7_StructuredWins ==
    ExDone =>
        \A k \in ChunkKeys \cap TextKeys :
            /\ \A j \in EntriesWith(k) : ~IsTextOrigin(ex_citations[j])
            /\ Cardinality(EntriesWith(k)) =
                   Cardinality({i \in 1..Len(ExNodes) : Yields(i) /\ ChunkKey(i) = k})

\* one chunk of page 3 of a.pdf and the same page cited in the text: one entry
C7_Witness ==
    /\ ExDone
    /\ ExNodes = <<ChunkA3>>
    /\ ExText = <<"w", "[Source: a.pdf, Page: 3]">>
    /\ Len(ex_citations) = 1
    /\ ~IsTextOrigin(ex_citations[1])

\* C8 (as stated): no two records of the list have the same (file, page).
C8_NoRepeatedKey ==
    ExDone =>
        \A i, j \in 1..Len(ex_citations) :
            i # j => KeyOf(ex_citations[i]) # KeyOf(ex_citations[j])

\* C8 (amended): the list is deduplicated between the origins only: two
\* records with the same (file, page) are of the same origin (two chunks of
\* one page, or one textual citation written twice).
C8_RepeatsShareOrigin ==
    ExDone =>
        \A i, j \in 1..Len(ex_citations) :
            KeyOf(ex_citations[i]) = KeyOf(ex_citations[j]) =>
                IsTextOrigin(ex_citations[i]) = IsTextOrigin(ex_citations[j])

\* two chunks of one page and a textual citation written twice: both repeat,
\* while the textual citation of the chunks' page is dropped
C8_Witness ==
    /\ ExDone
    /\ ExNodes = <<ChunkA3, ChunkA3Long>>
    /\ ExText = <<"(b.pdf, p. 0)", "a.pdf - Page 3", "(b.pdf, p. 0)">>
    /\ Len(ex_citations) = 4
    /\ KeyOf(ex_citations[1]) = KeyOf(ex_citations[2])
    /\ KeyOf(ex_citations[3]) = KeyOf(ex_citations[4])
    /\ IsTextOrigin(ex_citations[3])

\* C9: with m entries surfaced by the memory, the text sent to the pipeline
\* is the question when m = 0, and otherwise the header, the last min(6, m)
\* entries oldest first, each as "<role>: <content>", and "Current question:
\* <question>"; no older entry appears.
RECURSIVE C9_Lines(_, _, _)
C9_Lines(h, from, to) ==
    IF from > to THEN <<>>
    ELSE <<IF h[from].role = "user" THEN "user: " ELSE "assistant: ">>
         \o h[from].content \o <<"\n">> \o C9_Lines(h, from + 1, to)

C9_Expected(h, q) ==
    LET m == Len(h)
        n == IF m < 6 THEN m ELSE 6
    IN  IF m = 0 THEN q
        ELSE <<"Previous conversation context:\n">>
             \o C9_Lines(h, m - n + 1, m)
             \o <<"\nCurrent question: ">> \o q

C9_ContextIsLastSix ==
    (pc = "call" /\ "memory.get" \notin failures) =>
        contextualized_question = C9_Expected(chat_history, question)

\* eight entries surfaced, the two oldest left out of the text
C9_Witness ==
    /\ pc = "call"
    /\ Len(chat_history) = 8
    /\ chat_history[2].content # chat_history[4].content
    /\ Len(contextualized_question) > Len(question)
    /\ contextualized_question = C9_Expected(SubSeq(chat_history, 3, 8), question)

\* C10: a query aborted by a failing external call commits nothing: the
\* memory is what it was when the query was entered, and at no time does it
\* hold a user entry without its assistant entry.
C10_FailedQueryCommitsNothing ==
    /\ (Returned /\ "citation_engine.query" \in failures) =>
           memory = memory_at_entry
    /\ Len(memory) % 2 = 0
    /\ \A i \in 1..Len(memory) :
           memory[i].role = (IF i % 2 = 1 THEN "user" ELSE "assistant")

\* a failed follow-up query: the earlier exchange is still all there is
C10_Witness ==
    /\ Returned
    /\ "citation_engine.query" \in failures
    /\ Len(memory) = 2
    /\ memory = memory_at_entry
    /\ TheResult.confidence = 0

(***************************************************************************)
(* Batch processing.                                                       *)
(***************************************************************************)
BatchRunning == b_pc \in {"parse_multiple_pdfs", "process_uploaded_files", "done"}
TheResults == results[1]
EntryPath(entry) ==
    IF "file_path" \in DOMAIN entry THEN entry.file_path ELSE entry.file_name
\* how many of the first n files of the batch have this path
Occurrences(path, n) == Cardinality({k \in 1..n : b_files[k].path = path})
ErrorsFor(path) ==
    Cardinality({k \in 1..Len(TheResults.errors) :
                    EntryPath(TheResults.errors[k]) = path})
\* every parsed file has a first page
SuccessesFor(path) ==
    Cardinality({k \in 1..Len(TheResults.documents) :
                    /\ TheResults.documents[k].file_name = path
                    /\ TheResults.documents[k].page = 1})

C12_IsSkipEntry(entry) ==
    entry.error \in {"Duplicate file detected",
                     "File already exists in the database. Skipped."}

\* C12: a duplicate (a file whose content hash was already processed, or an
\* upload already in the database) is a skip and not a failure: failed_files
\* counts only the error entries that are not skips, and the duplicate is
\* not handed to parse_pdf (every call of parse_pdf is for a file that was
\* counted as successful or failed to parse).
C12_DuplicateIsSkipNotFailure ==
    BatchRunning =>
        /\ TheResults.stats.failed_files =
               Cardinality({k \in 1..Len(TheResults.errors) :
                               ~C12_IsSkipEntry(TheResults.errors[k])})
        /\ Len(parsed) =
               TheResults.stats.successful_files
               + Cardinality({k \in 1..Len(TheResults.errors) :
                                 TheResults.errors[k].error = ParsePdfError})

C18_FileAt(path) == CHOOSE f \in Files : f.path = path

C18_Cause(entry) ==
    LET f == C18_FileAt(EntryPath(entry))
    IN  IF entry.error = ParsePdfError THEN "service error"
        ELSE IF C12_IsSkipEntry(entry) THEN "duplicate"
        ELSE IF b_pc # "process_uploaded_files" /\ ~f.exists
             THEN "file not found"
        ELSE IF ~EndsWithPdf(f.path) \/ f.header # "%PDF"
             THEN "not a recognized document format"
        ELSE "too large"

C18_Causes == {"file not found", "not a recognized document format",
               "service error"}

\* C18: parsing fails distinctly for 'file not found', 'not a recognized
\* document format' and 'service error': two error entries of a batch whose
\* files failed for two different ones of these causes report different
\* errors.
C18_CausesFailDistinctly ==
    b_pc = "parse_multiple_pdfs" =>
        \A j, k \in 1..Len(TheResults.errors) :
            LET e1 == TheResults.errors[j]
                e2 == TheResults.errors[k]
            IN  (/\ C18_Cause(e1) \in C18_Causes
                 /\ C18_Cause(e2) \in C18_Causes
                 /\ C18_Cause(e1) # C18_Cause(e2))
                => e1.error # e2.error

(***************************************************************************)
(* The steps of one query and what they compute.                           *)
(***************************************************************************)
QueryRunning == pc \in {"add_context", "call", "extract", "put", "decide", "returned"}
NormalReturn ==
    /\ Returned
    /\ response # <<>>
    /\ ~C2_HasPhrase(TheResponse.text)

\* C13 (as stated): the two memory entries are appended only after the
\* confidence score was computed, that is, after the record was built.
C13_ScoredBeforeAppended ==
    (QueryRunning /\ memory # memory_at_entry) => result # <<>>

\* C13: within one query the steps occur in the order context injection,
\* external call, citation extraction, memory append, scoring: the two
\* entries are appended after the extraction and before the no-answer check
\* and the confidence computation; a query returns before the next one is
\* entered.
C13_StepsInOrder ==
    [][/\ pc = "idle" => pc' \in {"add_context", "returned"}
       /\ pc = "add_context" => (pc' = "call" /\ memory' = memory)
       /\ pc = "call" => (pc' \in {"extract", "returned"} /\ memory' = memory)
       /\ pc = "extract" => (pc' = "put" /\ memory' = memory /\ result' = <<>>)
       /\ pc = "put" =>
              /\ pc' = "decide"
              /\ memory' = PutMessages(memory_at_entry, question, Str(TheResponse))
              /\ result' = <<>>
       /\ pc = "decide" =>
              (pc' = "returned" /\ memory' = memory /\ result' # <<>>)
       /\ pc = "returned" => (pc' = "idle" /\ memory' = memory)
       /\ question' # question => (pc = "idle" \/ pc' = "idle")
       /\ memory_at_entry' # memory_at_entry => pc = "idle"]_vars

\* a follow-up query whose two entries are in the memory while its record,
\* which will carry a score, is not built yet
C13_Witness ==
    /\ pc = "decide"
    /\ memory_at_entry # <<>>
    /\ memory = PutMessages(memory_at_entry, question, Str(TheResponse))
    /\ ~IsNoAnswerResponse(Str(TheResponse))
    /\ citations # <<>>
    /\ result = <<>>

\* C14: on the normal path the sources field is the set of the file names
\* of the records of the citations field, chunks cited as Document_<n>
\* included.
C14_SourcesAreCitationFiles ==
    NormalReturn =>
        TheResult.sources =
            {TheResult.citations[i].file : i \in 1..Len(TheResult.citations)}

C15_DistinctDocuments(docs) == {docs[i].file_name : i \in 1..Len(docs)}

\* C15: the source count query gives to the scorer is the number of distinct
\* retrieved documents: the confidence of a normal record is the score of
\* its answer, its citations and the number of distinct file names among its
\* source documents.
C15_CountsDistinctDocuments ==
    NormalReturn =>
        TheResult.confidence =
            CalculateConfidence(TheResult.answer, TheResult.citations,
                Cardinality(C15_DistinctDocuments(TheResult.source_documents)))

\* C16: every citation the extractor returns has an integer page >= 1.
C16_PagesArePositive ==
    ExDone =>
        \A i \in 1..Len(ex_citations) :
            /\ ex_citations[i].page \in Nat
            /\ ex_citations[i].page >= 1

C17_Adjustment(w) ==
    (IF w > 50 THEN 10 ELSE IF w > 20 THEN 5 ELSE 0) - (IF w < 10 THEN 20 ELSE 0)

C17_Clamp(x) == IF x < 0 THEN 0 ELSE IF x > 100 THEN 100 ELSE x

C17_NoEvidence ==
    /\ sc_pc = "done"
    /\ sc_citations = <<>>
    /\ sc_num_sources = 0

\* C17 (as stated): with no citation and no retrieved chunk, base and
\* penalty cancel and the confidence is the clamped word-count adjustment
\* alone.
C17_OnlyWordCount ==
    C17_NoEvidence =>
        sc_confidence = <<C17_Clamp(30 - 30 + C17_Adjustment(WordCount(sc_text)))>>

\* C17: with no citation and no retrieved chunk, base and penalty cancel and
\* the confidence is the clamped sum of the word-count adjustment and of the
\* 0.1 an answer with a factual indicator earns.
C17_WordCountAndIndicator ==
    C17_NoEvidence =>
        sc_confidence =
            <<C17_Clamp(30 - 30 + C17_Adjustment(WordCount(sc_text))
                        + (IF C6_Keyword(sc_text) THEN 10 ELSE 0))>>

\* 51 words and an indicator, no citation, no chunk: 0.1 + 0.1
C17_Witness ==
    /\ C17_NoEvidence
    /\ WordCount(sc_text) = 51
    /\ C6_Keyword(sc_text)
    /\ sc_confidence = <<20>>

C19_ExtractionFailed ==
    /\ pc \in {"put", "decide", "returned"}
    /\ "extraction" \in failures

\* C19 (as stated): a helper in which the processing of a chunk fails
\* returns an empty result.
C19_FailedHelperReturnsEmpty ==
    C19_ExtractionFailed =>
        /\ citations = <<>>
        /\ sources = {}
        /\ source_documents = <<>>

C19_Before(nodes) ==
    CHOOSE n \in 0..Len(nodes) :
        /\ \A j \in 1..n : nodes[j].readable
        /\ n < Len(nodes) => ~nodes[n + 1].readable

\* C19: a helper in which the processing of a chunk fails does not
\* propagate: it returns what it gathered from the chunks before that one
\* (one structured citation, one source document and at most one file name
\* for each of them, and nothing from the answer text), and the query goes
\* on.
C19_FailedHelperReturnsPartial ==
    C19_ExtractionFailed =>
        LET n == C19_Before(SourceNodes(TheResponse))
        IN  /\ Len(citations) = n
            /\ \A i \in 1..n : ~IsTextOrigin(citations[i])
            /\ Len(source_documents) = n
            /\ \A i \in 1..n :
                   source_documents[i].metadata = SourceNodes(TheResponse)[i].metadata
            /\ sources = {SourceNodes(TheResponse)[i].metadata.file_name :
                             i \in {j \in 1..n : "file_name" \in
                                      DOMAIN SourceNodes(TheResponse)[j].metadata}}
            /\ Returned => ~C4_IsErrorRecord(TheResult)

\* the second of three chunks is unreadable and the text cites a page: the
\* helpers return what the first chunk gave
C19_Witness ==
    /\ C19_ExtractionFailed
    /\ Returned
    /\ Len(SourceNodes(TheResponse)) = 3
    /\ Len(citations) = 1
    /\ Len(source_documents) = 1
    /\ sources = {"a.pdf"}
    /\ ExtractCitationsFromText(Str(TheResponse)) # <<>>
    /\ TheResult.citations = citations

\* C20: when memory.get() raises in _add_context, the question itself is
\* what the retrieval/LLM call receives, the call is made, and unless the
\* call fails the query returns the record built from the response (normal
\* or no-answer), with its two entries appended to the memory.
C20_MemoryFailureDoesNotBlock ==
    /\ (pc = "call" /\ "memory.get" \in failures) =>
           contextualized_question = question
    /\ (Returned /\ "memory.get" \in failures) => called
    /\ (Returned /\ "memory.get" \in failures
                 /\ "citation_engine.query" \notin failures) =>
           /\ response # <<>>
           /\ ~C4_IsErrorRecord(TheResult)
           /\ TheResult = BuildRecord(Str(TheResponse), citations, sources,
                                      source_documents)
           /\ memory = PutMessages(memory_at_entry, question, Str(TheResponse))

\* a follow-up query whose memory read failed and which returns a scored
\* answer
C20_Witness ==
    /\ Returned
    /\ failures = {"memory.get"}
    /\ memory_at_entry # <<>>
    /\ TheResult.answer = Str(TheResponse)
    /\ TheResult.confidence > 0

(***************************************************************************)
(* The merged citation list and its snippets.                              *)
(***************************************************************************)
\* the matches of the answer text as the three scans find them: those of
\* the first form in text order, then those of the second, then the third
C21_Seen ==
    SelectSeq(ExText, LAMBDA tok : PatternOf(tok) = 1)
    \o SelectSeq(ExText, LAMBDA tok : PatternOf(tok) = 2)
    \o SelectSeq(ExText, LAMBDA tok : PatternOf(tok) = 3)

C21_Kept ==
    SelectSeq(C21_Seen,
        LAMBDA tok : <<MatchFile(tok), MatchPage(tok)>> \notin ChunkKeys)

C21_Readable == \A i \in 1..Len(ExNodes) : ExNodes[i].readable

C22_IsStructured(i) == i \in 1..Len(ex_citations) /\ ~IsTextOrigin(ex_citations[i])

\* C22 (as stated): the snippet of every structured citation is at most 200
\* characters long.
C22_SnippetAtMost200 ==
    ExDone =>
        \A i \in 1..Len(ex_citations) :
            C22_IsStructured(i) => ex_citations[i].text_snippet <= 200

\* C22: the snippet of a structured citation is the chunk text when that
\* has at most 200 characters, and otherwise its first 200 characters
\* followed by the three characters of the ellipsis: at most 203 characters.
C22_SnippetAtMost203 ==
    ExDone =>
        \A i \in 1..Len(ex_citations) :
            C22_IsStructured(i) =>
                /\ ex_citations[i].text_snippet <= 203
                /\ ex_citations[i].text_snippet =
                       (IF ExNodes[i].text <= 200 THEN ExNodes[i].text ELSE 200 + 3)

\* a chunk of exactly 200 characters kept whole beside one of 250 cut to 203
C22_Witness ==
    /\ ExDone
    /\ Len(ExNodes) = 2
    /\ ExNodes[1].text = 200
    /\ ExNodes[2].text = 250
    /\ Len(ex_citations) >= 2
    /\ ex_citations[1].text_snippet = 200
    /\ ex_citations[2].text_snippet = 203

(***************************************************************************)
(* Clearing the memory, and what the memory holds.                         *)
(***************************************************************************)
TheChatHistory == session_state[1].chat_history

C24_ContextTokens == {"Previous conversation context:\n", "\nCurrent question: "}

C24_Count(text, tok) == Cardinality({i \in 1..Len(text) : text[i] = tok})

\* C24: every user entry of the memory holds the question as submitted and
\* every assistant entry the raw response text, on the no-answer path too:
\* the exchange a query appends is its question and str(response), no entry
\* contains a context header or a "Current question" marker, and the prompt
\* built for a later query has at most one of each.
C24_MemoryHoldsQuestionsAndRawAnswers ==
    /\ \A i \in 1..Len(memory) :
           \A tok \in C24_ContextTokens : C24_Count(memory[i].content, tok) = 0
    /\ (pc \in {"decide", "returned"} /\ response # <<>>) =>
           /\ Len(memory) = Len(memory_at_entry) + 2
           /\ SubSeq(memory, 1, Len(memory_at_entry)) = memory_at_entry
           /\ memory[Len(memory) - 1] = [role |-> "user", content |-> question]
           /\ memory[Len(memory)] =
                  [role |-> "assistant", content |-> TheResponse.text]
    /\ pc = "call" =>
           \A tok \in C24_ContextTokens :
               C24_Count(contextualized_question, tok) <= 1

\* a follow-up query on the no-answer path: the memory holds the raw text,
\* the caller gets the canonical message
C24_Witness ==
    /\ Returned
    /\ Len(memory_at_entry) >= 4
    /\ response # <<>>
    /\ TheResult = NoAnswerRecord
    /\ memory[Len(memory)].content = TheResponse.text
    /\ memory[Len(memory)].content # TheResult.answer
    /\ memory[Len(memory) - 1].content = question

(***************************************************************************)
(* Waiting for the database.                                               *)
(***************************************************************************)
C25_AllUnavailable(n) ==
    /\ Len(attempts) = n
    /\ \A i \in 1..n : attempts[i] = "unavailable"

C25_Bounded ==
    ib_pc \in {"waiting", "waited", "done"} =>
        /\ Len(attempts) <= max_retries
        \* True at the first attempt that succeeds, which is the last made
        /\ ready = <<TRUE>> <=>
               /\ attempts # <<>>
               /\ attempts[Len(attempts)] = "ok"
        /\ \A i \in 1..(Len(attempts) - 1) : attempts[i] = "unavailable"
        \* False exactly when all max_retries attempts were unavailable
        /\ ib_pc # "waiting" =>
               (ready = <<FALSE>> <=> C25_AllUnavailable(max_retries))
        \* and then the caller leaves the database alone
        /\ ready = <<FALSE>> => executed = <<>>
        /\ (ib_pc = "done" /\ ready = <<FALSE>>) =>
               outcome =
                   <<CASE caller = "_wait_for_neo4j" -> Returns(FALSE)
                       [] caller = "_create_vector_store" ->
                              Raises("RuntimeError: Neo4j connection failed.")
                       [] caller = "get_existing_document_names" -> Returns(<<>>)
                       [] caller = "delete_all_documents" -> Returns("None")>>

\* C25: _wait_for_neo4j makes at most max_retries connection attempts and
\* then ends; it returns True at the first attempt that succeeds, with no
\* attempt after it, and False exactly when all max_retries attempts failed
\* with service-unavailable; after False the caller executes nothing on the
\* database and changes nothing in it (_create_vector_store raises,
\* get_existing_document_names returns [], delete_all_documents returns).
C25_WaitIsBoundedAndGuardsCallers ==
    /\ []C25_Bounded
    /\ [][ready = <<FALSE>> => database' = database]_vars
    /\ (ib_pc = "waiting") ~> (ib_pc = "done")

\* delete_all_documents after five unavailable attempts: nothing deleted
C25_Witness ==
    /\ ib_pc = "done"
    /\ caller = "delete_all_documents"
    /\ C25_AllUnavailable(DefaultMaxRetries)
    /\ ready = <<FALSE>>
    /\ database.chunks # {}
    /\ executed = <<>>
    /\ outcome = <<Returns("None")>>

============================================================================
